---- MODULE Spec2Model ----
(***************************************************************************)
(* State-machine model of src/main.py (Facebook group auto poster):        *)
(* parse_args, read_links, FacebookPoster.run / login / post_to_group and  *)
(* the element discovery routines _find_composer / _find_post_button.      *)
(* The browser is the environment: a page is a finite DOM (a sequence of   *)
(* elements in document order) and every driver call may raise.            *)
(***************************************************************************)
EXTENDS Integers, Sequences, FiniteSets, TLC

\* ------------------------------------------------------------------ bounds
MaxLines == 2       \* lines of the links file
MaxDom == 2         \* elements of a page

\* ------------------------------------------------------- program constants
ExitConfigError == 2      \* sys.exit(2) in parse_args
ExitMissingFile == 2      \* return 2 in main
ExitNoTargets == 1        \* return 1 in main
ExitOk == 0               \* return 0 in main
ExitUncaught == 1         \* interpreter status when an exception leaves main
SurfaceAttempts == 3      \* for _ in range(3) in _find_composer
ScoreThreshold == 2       \* filter(o=>o.s>2) in direct_scan

None == 0                 \* Python None for element references / no index
Running == -1             \* the process has not exited yet

COMPOSER_KEYWORDS ==
    {"tulis sesuatu", "tulis sesuatu...", "apa yang anda pikirkan",
     "apa yang kamu pikirkan", "write something", "what's on your mind",
     "write a post", "write your post"}

POST_BUTTON_KEYWORDS ==
    {"post", "publish", "share", "posting", "kirim", "bagikan", "publikasikan"}

\* k is a substring of the keyword w (the only proper containments among
\* the dictionary words)
Substr(k, w) ==
    \/ k = w
    \/ <<k, w>> \in {<<"tulis sesuatu", "tulis sesuatu...">>, <<"post", "posting">>}

\* a label/text is modelled by the set of dictionary words written in it;
\* String.includes(k)
Includes(words, k) == \E w \in words : Substr(k, w)

\* ------------------------------------------------------------- links file
\* A line is a sequence of characters over a small alphabet:
\*   "u" the text facebook.com,  "a", "b" other visible text,
\*   "#" hash, "|" pipe, "T" tab, " " blank.
IsSpace(c) == c \in {" ", "T"}

RECURSIVE LStrip(_)
LStrip(s) == IF s /= <<>> /\ IsSpace(Head(s)) THEN LStrip(Tail(s)) ELSE s

RECURSIVE RStrip(_)
RStrip(s) ==
    IF s /= <<>> /\ IsSpace(s[Len(s)]) THEN RStrip(SubSeq(s, 1, Len(s) - 1)) ELSE s

\* str.strip()
Strip(s) == RStrip(LStrip(s))

\* str.split(sep): the fields between the occurrences of sep
RECURSIVE SplitAcc(_, _, _)
SplitAcc(s, sep, cur) ==
    IF s = <<>> THEN <<cur>>
    ELSE IF Head(s) = sep THEN <<cur>> \o SplitAcc(Tail(s), sep, <<>>)
    ELSE SplitAcc(Tail(s), sep, Append(cur, Head(s)))

Split(s, sep) == SplitAcc(s, sep, <<>>)

HasChar(s, c) == \E i \in 1..Len(s) : s[i] = c

\* parts of a stripped line (src lines 181-186)
LineParts(line) ==
    IF HasChar(line, "T") THEN [i \in 1..Len(Split(line, "T")) |-> Strip(Split(line, "T")[i])]
    ELSE IF HasChar(line, "|") THEN [i \in 1..Len(Split(line, "|")) |-> Strip(Split(line, "|")[i])]
    ELSE <<line>>

\* the override fields taken one position too far to the right
FieldOrNone_Shifted(parts, i) == IF Len(parts) >= i + 1 THEN parts[i + 1] ELSE <<>>

\* a field that is missing or empty is None (the empty sequence stands for it)
FieldOrNone(parts, i) == IF Len(parts) >= i THEN parts[i] ELSE <<>>

\* the item one raw line contributes: <<>> when the line is skipped
LineItem(raw) ==
    LET line == Strip(raw) IN
    IF line = <<>> \/ Head(line) = "#" THEN <<>>
    ELSE LET parts == LineParts(line) IN
         IF ~HasChar(parts[1], "u") THEN <<>>
         ELSE << [url |-> parts[1],
                  composer_xpath |-> FieldOrNone(parts, 2),
                  post_button_xpath |-> FieldOrNone(parts, 3)] >>

\* the loop of read_links without `if len(items) >= limit: break`
RECURSIVE ReadLinesAcc_NoBreak(_, _, _)
ReadLinesAcc_NoBreak(lines, limit, items) ==
    IF lines = <<>> THEN items
    ELSE ReadLinesAcc_NoBreak(Tail(lines), limit, items \o LineItem(Head(lines)))

RECURSIVE ReadLinesAcc(_, _, _)
ReadLinesAcc(lines, limit, items) ==
    IF lines = <<>> THEN items
    ELSE LET items2 == items \o LineItem(Head(lines)) IN
         IF LineItem(Head(lines)) /= <<>> /\ Len(items2) >= limit THEN items2
         ELSE ReadLinesAcc(Tail(lines), limit, items2)

\* read_links(path, limit) for an existing file
read_links(lines, limit) == ReadLinesAcc(lines, limit, <<>>)

\* the lines the links-file specification draws files from
LinkLines ==
    { <<>>,                                \* blank line
      <<"#", "u">>,                        \* comment
      <<" ", "#", "u">>,                   \* indented comment
      <<"a">>,                             \* not-a-url
      <<"u">>,                             \* url
      <<" ", "u", " ">>,                   \* url with blanks around it
      <<"u", "|", "a">>,                   \* url|composer
      <<"u", "|", "a", "|", "b">>,         \* url|composer|post button
      <<"u", "T", "a", "T", "b">>,         \* the same, tab separated
      <<"u", "|", "|", "b">>,              \* url||post button
      <<"a", "|", "u">>,                   \* the domain in field 2 only
      <<"u", "|", "a", "T", "b">> }        \* both separators in one line

\* the three lines https://facebook.com/groups/1, not-a-url,
\* https://facebook.com/groups/2|//custom/xpath
ExampleFile == << <<"u">>, <<"a">>, <<"u", "|", "a">> >>

\* the lines the model draws files from
SampleLines ==
    { <<"u">>,                         \* https://facebook.com/groups/1
      <<"a">>,                         \* not-a-url
      <<"u", "|", "a", "|", "a">> }    \* url|composer xpath|post button xpath

RECURSIVE SeqsUpTo(_, _)
SeqsUpTo(S, n) ==
    IF n = 0 THEN {<<>>}
    ELSE LET shorter == SeqsUpTo(S, n - 1) IN
         shorter \cup {Append(s, x) : s \in {t \in shorter : Len(t) = n - 1}, x \in S}

Files == SeqsUpTo(SampleLines, MaxLines)

\* the links file as main finds it: missing, or existing with some lines
FileStates ==
    {[exists |-> FALSE, lines |-> <<>>]} \cup {[exists |-> TRUE, lines |-> f] : f \in Files}

\* ------------------------------------------------------------------- DOM
\* An element: the attributes the discovery code reads.
\*   vis: "shown", "hidden", or "onclick" (attached and shown only once a
\*        placeholder/surface has been clicked and the editor has opened)
\*   anc: the closest container ancestor ("none" = directly under body)
Elem(tag, role, ce, xc, aria, txt, aph, tab0, ariaDis, dis, anc, vis) ==
    [tag |-> tag, role |-> role, ce |-> ce, cls |-> FALSE, xc |-> xc,
     aria |-> aria, ph |-> {}, txt |-> txt, aph |-> aph, testid |-> FALSE,
     tab0 |-> tab0, ariaDis |-> ariaDis, dis |-> dis, anc |-> anc, vis |-> vis]

K_Editor         == Elem("div", "textbox", TRUE, FALSE, {}, {}, FALSE, FALSE, FALSE, FALSE, "form", "shown")
K_EditorKw       == Elem("div", "textbox", TRUE, FALSE, {"write something"}, {}, FALSE, FALSE, FALSE, FALSE, "none", "shown")
K_EditorLatent   == Elem("div", "textbox", TRUE, FALSE, {}, {}, TRUE, FALSE, FALSE, FALSE, "dialog", "onclick")
K_EditorMain     == Elem("div", "textbox", TRUE, FALSE, {}, {}, TRUE, FALSE, FALSE, FALSE, "none", "shown")
K_Textarea       == Elem("textarea", "none", FALSE, TRUE, {}, {}, FALSE, FALSE, FALSE, FALSE, "form", "shown")
K_TextareaOff    == Elem("textarea", "none", FALSE, TRUE, {}, {}, FALSE, FALSE, FALSE, TRUE, "form", "shown")
K_Placeholder    == Elem("div", "button", FALSE, FALSE, {}, {"tulis sesuatu..."}, FALSE, FALSE, FALSE, FALSE, "none", "shown")
K_Surface        == Elem("div", "button", FALSE, FALSE, {"write something"}, {}, FALSE, FALSE, FALSE, FALSE, "none", "shown")
K_PostBtn        == Elem("div", "button", FALSE, FALSE, {"posting"}, {}, FALSE, TRUE, FALSE, FALSE, "none", "shown")
K_PostBtnHidden  == Elem("div", "button", FALSE, FALSE, {"posting"}, {}, FALSE, TRUE, FALSE, FALSE, "none", "hidden")
K_PostBtnAriaDis == Elem("div", "button", FALSE, FALSE, {"posting"}, {}, FALSE, TRUE, TRUE, FALSE, "none", "shown")

\* the elements the pages of the discovery specification are built from
ElemKinds ==
    {K_Editor, K_EditorKw, K_EditorLatent, K_Textarea, K_TextareaOff,
     K_Placeholder, K_Surface, K_PostBtn, K_PostBtnHidden}

Doms == SeqsUpTo(ElemKinds, MaxDom)

\* a page: its DOM and whether the editor has been opened by a click
Pages == [dom : Doms, opened : BOOLEAN]

\* WebElement.is_displayed()
is_displayed(p, i) ==
    \/ p.dom[i].vis = "shown"
    \/ p.dom[i].vis = "onclick" /\ p.opened

\* WebElement.is_enabled(): only form controls can be disabled
is_enabled(p, i) == ~(p.dom[i].dis /\ p.dom[i].tag \in {"button", "textarea", "input"})

\* EC.element_to_be_clickable and the `is_displayed() and is_enabled()` tests
Usable(p, i) == is_displayed(p, i) /\ is_enabled(p, i)

\* indices (document order) of the elements of p that satisfy Match
RECURSIVE SelectFrom(_, _, _)
SelectFrom(p, Match(_), i) ==
    IF i > Len(p.dom) THEN <<>>
    ELSE (IF Match(p.dom[i]) THEN <<i>> ELSE <<>>) \o SelectFrom(p, Match, i + 1)

Select(p, Match(_)) == SelectFrom(p, Match, 1)

\* `for e in cands: if e.is_displayed() and e.is_enabled(): return e` inside
\* one try block: a stale element raises and ends the whole loop
RECURSIVE FirstUsable(_, _, _)
FirstUsable(p, cands, stale) ==
    IF cands = <<>> THEN None
    ELSE IF Head(cands) \in stale THEN None
    ELSE IF Usable(p, Head(cands)) THEN Head(cands)
    ELSE FirstUsable(p, Tail(cands), stale)

\* the same loop with the try block inside it: a stale element is skipped
RECURSIVE FirstUsableSkipping(_, _, _)
FirstUsableSkipping(p, cands, stale) ==
    IF cands = <<>> THEN None
    ELSE IF Head(cands) \notin stale /\ Usable(p, Head(cands)) THEN Head(cands)
    ELSE FirstUsableSkipping(p, Tail(cands), stale)

\* The per-target override XPaths of the sample file: the composer override
\* is //textarea, the post button override is //*[@tabindex='0'].
ComposerOverrideMatch(e) == e.tag = "textarea"
PostOverrideMatch(e) == e.tab0

\* ------------------------------------------------------ composer scoring
KeywordHits(e) ==
    Cardinality({k \in COMPOSER_KEYWORDS :
                    Includes(e.aria, k) \/ Includes(e.ph, k) \/ Includes(e.txt, k)})

\* a scorer that rewards a label only when it names a single keyword
score_SingleKeywordOnly(e) ==
      (IF e.tag = "textarea" THEN 2 ELSE 0)
    + (IF e.role = "textbox" THEN 2 ELSE 0)
    + (IF e.ce THEN 3 ELSE 0)
    + (IF e.cls THEN 1 ELSE 0)
    + (IF KeywordHits(e) = 1 THEN 3 ELSE 0)

\* score(el) of direct_scan
score(e) ==
      (IF e.tag = "textarea" THEN 2 ELSE 0)
    + (IF e.role = "textbox" THEN 2 ELSE 0)
    + (IF e.ce THEN 3 ELSE 0)
    + (IF e.cls THEN 1 ELSE 0)
    + 3 * KeywordHits(e)

\* querySelectorAll('[contenteditable="true"], div[role="textbox"],
\*                   textarea[name="xc_message"], textarea[aria-label], textarea')
ScanSelector(e) ==
    e.ce \/ (e.tag = "div" /\ e.role = "textbox") \/ e.tag = "textarea"

\* insertion that puts an element before the earlier elements of its score
RECURSIVE InsertByScore_TiesReversed(_, _, _)
InsertByScore_TiesReversed(p, sorted, i) ==
    IF sorted = <<>> THEN <<i>>
    ELSE IF score(p.dom[Head(sorted)]) > score(p.dom[i])
         THEN <<Head(sorted)>> \o InsertByScore_TiesReversed(p, Tail(sorted), i)
         ELSE <<i>> \o sorted

\* stable insertion of index i into a list sorted by descending score
RECURSIVE InsertByScore(_, _, _)
InsertByScore(p, sorted, i) ==
    IF sorted = <<>> THEN <<i>>
    ELSE IF score(p.dom[Head(sorted)]) >= score(p.dom[i])
         THEN <<Head(sorted)>> \o InsertByScore(p, Tail(sorted), i)
         ELSE <<i>> \o sorted

RECURSIVE SortByScore(_, _)
SortByScore(p, idxs) ==
    IF idxs = <<>> THEN <<>>
    ELSE InsertByScore(p, SortByScore(p, SubSeq(idxs, 1, Len(idxs) - 1)), idxs[Len(idxs)])

ScoreFilter(e) == ScanSelector(e) /\ score(e) > ScoreThreshold

\* the list the scored-scan script returns: all.map(score).filter(s>2).sort(desc)
ScoredCandidates(p) == SortByScore(p, Select(p, ScoreFilter))

\* the candidates before r in the list whose visibility check raised
\* (`except Exception: continue` in the loop over the scan result)
PassedOver(cands, stale, r) ==
    {cands[i] : i \in {j \in 1..Len(cands) :
                          cands[j] \in stale /\ \E k \in (j + 1)..Len(cands) : cands[k] = r}}

\* first half of direct_scan; jsRaise: execute_script raised
ScoredScan(p, stale, jsRaise) ==
    IF jsRaise THEN None ELSE FirstUsableSkipping(p, ScoredCandidates(p), stale)

StaticComposer1(e) == e.tag = "div" /\ e.role = "textbox" /\ e.ce
StaticComposer2(e) == StaticComposer1(e) /\ e.anc = "pagelet"
StaticComposer3(e) == StaticComposer1(e) /\ e.anc = "form"
StaticComposer4(e) == e.tag = "textarea" /\ e.xc
StaticComposer5(e) == e.tag = "textarea" /\ e.aria /= {}

\* second half of direct_scan: the static XPath list, one try block per XPath
StaticComposerList(p, stale) ==
    LET r1 == FirstUsable(p, Select(p, StaticComposer1), stale)
        r2 == FirstUsable(p, Select(p, StaticComposer2), stale)
        r3 == FirstUsable(p, Select(p, StaticComposer3), stale)
        r4 == FirstUsable(p, Select(p, StaticComposer4), stale)
        r5 == FirstUsable(p, Select(p, StaticComposer5), stale)
    IN IF r1 /= None THEN r1 ELSE IF r2 /= None THEN r2 ELSE IF r3 /= None THEN r3
       ELSE IF r4 /= None THEN r4 ELSE r5

\* //div[@role='button' and .//span[contains(text(),'Tulis sesuatu')]]
IsPlaceholder(e) == e.tag = "div" /\ e.role = "button" /\ Includes(e.txt, "tulis sesuatu")

\* //div[@role='textbox' and @aria-placeholder='Buat postingan publik...']
IsMainComposer(e) == e.tag = "div" /\ e.role = "textbox" /\ e.aph

\* the element the script of _try_click_composer_surface would click
SurfaceMatch(e) ==
    /\ \E k \in COMPOSER_KEYWORDS : Includes(e.aria, k) \/ Includes(e.txt, k) \/ Includes(e.ph, k)
    /\ ~e.ce

\* direct_scan() when no driver call raises
direct_scan(p) ==
    IF ScoredScan(p, {}, FALSE) /= None THEN ScoredScan(p, {}, FALSE)
    ELSE StaticComposerList(p, {})

\* `for _ in range(3):` of _find_composer with n attempts left; the result
\* is <<element, page as the call leaves it>>
RECURSIVE SurfaceRetry(_, _)
SurfaceRetry(p, n) ==
    IF n = 0 THEN <<None, p>>
    ELSE IF Select(p, SurfaceMatch) = <<>> THEN SurfaceRetry(p, n - 1)
    ELSE LET p2 == [p EXCEPT !.opened = TRUE] IN
         IF direct_scan(p2) /= None THEN <<direct_scan(p2), p2>>
         ELSE SurfaceRetry(p2, n - 1)

\* _find_composer(override_xpath) as one call on page p in which no driver
\* call raises; xp: an override is set. The result is <<element, page as the
\* call leaves it>>.
_find_composer(p, xp) ==
    LET ovr == IF xp THEN FirstUsable(p, Select(p, ComposerOverrideMatch), {}) ELSE None
        phs == Select(p, IsPlaceholder)
        ph  == IF phs /= <<>> /\ Usable(p, phs[1]) THEN phs[1] ELSE None
        p2  == [p EXCEPT !.opened = @ \/ ph /= None]
        ms  == Select(p2, IsMainComposer)
        fast == IF ph /= None /\ ms /= <<>> /\ Usable(p2, ms[1]) THEN ms[1] ELSE None
    IN IF ovr /= None THEN <<ovr, p>>
       ELSE IF fast /= None THEN <<fast, p2>>
       ELSE IF direct_scan(p2) /= None THEN <<direct_scan(p2), p2>>
       ELSE SurfaceRetry(p2, SurfaceAttempts)

\* ----------------------------------------------------- post button search
\* good(el) of the script of _find_post_button
good(e) ==
    /\ ~e.dis
    /\ ~e.ariaDis
    /\ \/ e.testid
       \/ \E k \in POST_BUTTON_KEYWORDS : Includes(e.aria, k) \/ Includes(e.txt, k)

JsButtonCand(e) == e.role = "button" \/ e.tag = "button" \/ e.aria /= {}
JsButtonFallback(e) == e.role = "button"

\* composer.closest('[role="dialog"],[data-pagelet],[aria-modal="true"], form')
\* || document.body
InContainer(p, composer, i) ==
    p.dom[composer].anc = "none" \/ p.dom[i].anc = p.dom[composer].anc

RECURSIVE FirstGood(_, _)
FirstGood(p, cands) ==
    IF cands = <<>> THEN None
    ELSE IF good(p.dom[Head(cands)]) THEN Head(cands)
    ELSE FirstGood(p, Tail(cands))

\* the element the script returns (null = None)
JsButtonScan(p, composer) ==
    LET inC(e) == JsButtonCand(e)
        cands == SelectSeq(Select(p, inC), LAMBDA i : InContainer(p, composer, i))
        first == FirstGood(p, cands)
    IN IF first /= None THEN first ELSE FirstGood(p, Select(p, JsButtonFallback))

StaticButtonAria(e, k) == e.tag = "div" /\ e.role = "button" /\ Includes(e.aria, k)
StaticButtonText(e) ==
    /\ e.role = "button" \/ e.tag = "button"
    /\ \E k \in {"post", "posting", "kirim", "bagikan", "publish"} : e.txt = {k}

StaticButtonXPath(p, n, stale) ==
    LET m1(e) == StaticButtonAria(e, "post")
        m2(e) == StaticButtonAria(e, "posting")
        m3(e) == StaticButtonAria(e, "kirim")
        m4(e) == StaticButtonAria(e, "bagikan")
        m5(e) == StaticButtonAria(e, "publish")
    IN CASE n = 1 -> FirstUsable(p, Select(p, m1), stale)
         [] n = 2 -> FirstUsable(p, Select(p, m2), stale)
         [] n = 3 -> FirstUsable(p, Select(p, m3), stale)
         [] n = 4 -> FirstUsable(p, Select(p, m4), stale)
         [] n = 5 -> FirstUsable(p, Select(p, m5), stale)
         [] OTHER -> FirstUsable(p, Select(p, StaticButtonText), stale)

RECURSIVE StaticButtonFrom(_, _, _)
StaticButtonFrom(p, n, stale) ==
    IF n > 7 THEN None
    ELSE IF StaticButtonXPath(p, n, stale) /= None THEN StaticButtonXPath(p, n, stale)
    ELSE StaticButtonFrom(p, n + 1, stale)

\* _find_post_button(composer, override_xpath); post_xp: an override is set,
\* stale: elements whose is_displayed() raises, jsRaise: execute_script raised.
\* The result is <<element, strategy>>.
_find_post_button(p, composer, post_xp, stale, jsRaise) ==
    LET ovr == IF post_xp THEN FirstUsable(p, Select(p, PostOverrideMatch), stale) ELSE None
        js  == IF jsRaise THEN None ELSE JsButtonScan(p, composer)
        st  == StaticButtonFrom(p, 1, stale)
    IN IF ovr /= None THEN <<ovr, "override">>
       ELSE IF js /= None THEN <<js, "script">>
       ELSE IF st /= None THEN <<st, "static">>
       ELSE <<None, "none">>

\* ----------------------------------------------------------------- state
VARIABLES
    args,       \* command line and environment as parse_args sees them
    cfg,        \* the Config parse_args returns (the fields the run reads)
    file,       \* the links file: whether it exists, and its lines
    site,       \* which pages the site serves to driver.get: "fixtures" or "any"
    pc,         \* position of the (single) thread of control
    status,     \* exit status of the process, Running until it exits
    links,      \* the list read_links returned
    listed,     \* the numbered lines the dry run printed
    driver,     \* self.driver: "none", "live" (session open) or "quit"
    drvCalled,  \* some call on the driver has been made
    loginCalls, \* calls of login so far
    quitCalls,  \* calls of driver.quit so far
    idx,        \* loop index of run (1-based), 0 before the loop
    ok,         \* the success counter of run
    invoked,    \* indices for which post_to_group was invoked, in order
    delays,     \* inter-target delays (self._sleep()) run has taken
    tabs,       \* number of open target tabs
    focus,      \* window the driver is switched to: "root", "tab", "gone"
    page,       \* the page in the current target tab
    t,          \* what post_to_group has done for the current target
    fc,         \* progress of the current _find_composer call
    exc         \* exception travelling out of run, "none" if there is none

vars == <<args, cfg, file, site, pc, status, links, listed, driver, drvCalled, loginCalls,
          quitCalls, idx, ok, invoked, delays, tabs, focus, page, t, fc, exc>>

NoRet == [el |-> None, usable |-> FALSE, strat |-> "none"]

\* state of post_to_group before it has done anything for a target
TStart ==
    [nav |-> "none",        \* outcome of driver.get while its handler runs
     stopped |-> FALSE,     \* the handler has just executed window.stop()
     composer |-> None,     \* element _find_composer returned
     fcDone |-> FALSE,      \* _find_composer has returned
     fcRet |-> NoRet,       \* what it returned, with its state when selected
     exn |-> FALSE,         \* a driver call of _find_composer or
                            \* _find_post_button raised an exception
     raised |-> {},         \* candidates the scored scan passed over because
                            \* their is_displayed()/is_enabled() raised
     pbCalls |-> 0,         \* calls of _find_post_button
     pbRet |-> NoRet,       \* what the last call returned
     typeCalls |-> 0,       \* calls of _set_composer_text
     typedOk |-> FALSE,     \* _set_composer_text returned True
     typedInto |-> {},      \* elements that received send_keys / insertText
     inputCalls |-> 0,      \* calls of input()
     confirmed |-> FALSE,   \* input() returned a line
     explicitClick |-> FALSE, \* the explicit 'Posting' button click was executed
     clickPosts |-> 0,      \* calls of _click_post
     clicks |-> 0,          \* clicks on a submit control
     closed |-> FALSE,      \* the finally block has run
     warn |-> FALSE,        \* `[WARN] {link} -> {e}` was printed
     ret |-> "none"]        \* return value: "none" (not returned), "True", "False"

FcStart == [log |-> <<>>, attempt |-> 0, scans |-> 0]

EmptyPage == [dom |-> <<>>, opened |-> FALSE]

\* the values of --limit the runs are started with
LimitInputs == {0, 2}

\* argv and environment: the flags, whether a non-empty message is given
\* (--message or the message file), whether email and password are both given
\* (flags or FACEBOOK_EMAIL / FACEBOOK_PASSWORD), and --limit
Args ==
    [dry_run : BOOLEAN, inspect : BOOLEAN, manual_post : BOOLEAN,
     message : BOOLEAN, creds : BOOLEAN, limit : LimitInputs]

\* the arguments of a Config that has not been built
NoArgs ==
    [dry_run |-> FALSE, inspect |-> FALSE, manual_post |-> FALSE,
     message |-> FALSE, creds |-> FALSE, limit |-> 0]

\* Config(...) as parse_args builds it: a missing email/password has been
\* replaced by a dummy, --composer-xpath / --post-button-xpath default to None
Config(a) ==
    [dry_run |-> a.dry_run, inspect |-> a.inspect, manual_post |-> a.manual_post,
     message |-> a.message, limit |-> IF a.limit > 1 THEN a.limit ELSE 1,
     composer_xpath |-> <<>>, post_button_xpath |-> <<>>]

\* no Config exists yet
NoConfig == Config(NoArgs)

InitWith(a, f, served) ==
    /\ args = a
    /\ cfg = NoConfig
    /\ file = f
    /\ site = served
    /\ pc = "parse_args"
    /\ status = Running
    /\ links = <<>>
    /\ listed = <<>>
    /\ driver = "none"
    /\ drvCalled = FALSE
    /\ loginCalls = 0
    /\ quitCalls = 0
    /\ idx = 0
    /\ ok = 0
    /\ invoked = <<>>
    /\ delays = 0
    /\ tabs = 0
    /\ focus = "root"
    /\ page = EmptyPage
    /\ t = TStart
    /\ fc = FcStart
    /\ exc = "none"

\* ------------------------------------------------------------- main
\* parse_args exiting with status 1 instead of 2
ParseArgsExit_Status1(c) ==
    IF ~(c.message \/ c.dry_run \/ c.inspect) THEN 1
    ELSE IF ~c.creds /\ ~(c.dry_run \/ c.inspect) THEN 1
    ELSE Running

\* the two fatal checks of parse_args: the status it exits with, or Running
ParseArgsExit(c) ==
    IF ~(c.message \/ c.dry_run \/ c.inspect) THEN ExitConfigError
    ELSE IF ~c.creds /\ ~(c.dry_run \/ c.inspect) THEN ExitConfigError
    ELSE Running

Exit(code) ==
    /\ status' = code
    /\ pc' = "exit"

\* parse_args: sys.exit(2) on a fatal check, else the Config is returned
parse_args ==
    /\ pc = "parse_args"
    /\ IF ParseArgsExit(args) /= Running
       THEN Exit(ParseArgsExit(args)) /\ UNCHANGED cfg
       ELSE /\ cfg' = Config(args)
            /\ pc' = "read_links"
            /\ UNCHANGED status
    /\ UNCHANGED <<args, file, site, links, listed, driver, drvCalled, loginCalls, quitCalls,
                   idx, ok, invoked, delays, tabs, focus, page, t, fc, exc>>

\* main, from the read_links call to the call of run
main_read_links ==
    /\ pc = "read_links"
    /\ IF ~file.exists
       THEN Exit(ExitMissingFile) /\ UNCHANGED links
       ELSE /\ links' = read_links(file.lines, cfg.limit)
            /\ IF links' = <<>>
               THEN Exit(ExitNoTargets)
               ELSE pc' = "run" /\ UNCHANGED status
    /\ UNCHANGED <<args, cfg, file, site, listed, driver, drvCalled, loginCalls, quitCalls,
                   idx, ok, invoked, delays, tabs, focus, page, t, fc, exc>>

\* ------------------------------------------------------------- run
\* the dry-run test of run giving way to --inspect
DryRunBranch_UnlessInspect(c) == c.dry_run /\ ~c.inspect

\* `if self.cfg.dry_run:` at the top of run
DryRunBranch(c) == c.dry_run

\* the dry-run branch: print every target with its 1-based index, return
run_dry ==
    /\ pc = "run"
    /\ DryRunBranch(cfg)
    /\ listed' = [i \in 1..Len(links) |-> <<i, links[i].url>>]
    /\ Exit(ExitOk)
    /\ UNCHANGED <<args, cfg, file, site, links, driver, drvCalled, loginCalls, quitCalls,
                   idx, ok, invoked, delays, tabs, focus, page, t, fc, exc>>

\* self._init_driver(), called outside the try block of run:
\*   "ok"      the session is created and configured
\*   "ctor"    webdriver.Chrome(...) raises, no session exists
\*   "timeout" set_page_load_timeout raises after the session was created
_init_driver ==
    /\ pc = "run"
    /\ ~DryRunBranch(cfg)
    /\ \E outcome \in {"ok", "ctor", "timeout"} :
        /\ driver' = IF outcome = "ctor" THEN "none" ELSE "live"
        /\ drvCalled' = (outcome /= "ctor")
        /\ IF outcome = "ok"
           THEN pc' = "login" /\ UNCHANGED <<status, exc>>
           ELSE Exit(ExitUncaught) /\ exc' = "init"
    /\ UNCHANGED <<args, cfg, file, site, links, listed, loginCalls, quitCalls,
                   idx, ok, invoked, delays, tabs, focus, page, t, fc>>

\* `for idx, item in enumerate(links, 1):` takes the next item, or the loop
\* ends and control reaches the finally block of run
ForNext ==
    IF idx < Len(links)
    THEN idx' = idx + 1 /\ pc' = "ptg_open"
    ELSE pc' = "run_finally" /\ UNCHANGED idx

\* login swallowing its failure instead of raising
login_Swallows ==
    /\ pc = "login"
    /\ loginCalls' = loginCalls + 1
    /\ drvCalled' = TRUE
    /\ \E outcome \in {"ok", "url_check", "driver"} :
        /\ ForNext
        /\ exc' = IF outcome = "ok" THEN exc ELSE outcome
    /\ UNCHANGED <<args, cfg, file, site, status, links, listed, driver, quitCalls,
                   ok, invoked, delays, tabs, focus, page, t, fc>>

\* self.login(): "ok", or it raises because the post-login URL check failed
\* ("url_check") or because an earlier driver call / wait raised ("driver")
login ==
    /\ pc = "login"
    /\ loginCalls' = loginCalls + 1
    /\ drvCalled' = TRUE
    /\ \E outcome \in {"ok", "url_check", "driver"} :
        IF outcome = "ok"
        THEN ForNext /\ UNCHANGED exc
        ELSE pc' = "run_finally" /\ exc' = outcome /\ UNCHANGED idx
    /\ UNCHANGED <<args, cfg, file, site, status, links, listed, driver, quitCalls,
                   ok, invoked, delays, tabs, focus, page, t, fc>>

\* the loop counting every target as a success
run_count_CountsAll ==
    /\ pc = "run_count"
    /\ ok' = ok + 1
    /\ delays' = delays + 1
    /\ ForNext
    /\ UNCHANGED <<args, cfg, file, site, status, links, listed, driver, drvCalled, loginCalls,
                   quitCalls, invoked, tabs, focus, page, t, fc, exc>>

\* the rest of one loop iteration after post_to_group has returned:
\* `if self.post_to_group(item): ok += 1`, `self._sleep()`, next item
run_count ==
    /\ pc = "run_count"
    /\ ok' = IF t.ret = "True" THEN ok + 1 ELSE ok
    /\ delays' = delays + 1
    /\ ForNext
    /\ UNCHANGED <<args, cfg, file, site, status, links, listed, driver, drvCalled, loginCalls,
                   quitCalls, invoked, tabs, focus, page, t, fc, exc>>

\* the finally block of run; an exception of driver.quit() is swallowed.
\* Afterwards run returns (status 0) or the pending exception leaves main.
run_finally ==
    /\ pc = "run_finally"
    /\ IF driver /= "none"
       THEN quitCalls' = quitCalls + 1 /\ driver' = "quit" /\ drvCalled' = TRUE
       ELSE UNCHANGED <<quitCalls, driver, drvCalled>>
    /\ Exit(IF exc = "none" THEN ExitOk ELSE ExitUncaught)
    /\ UNCHANGED <<args, cfg, file, site, links, listed, loginCalls,
                   idx, ok, invoked, delays, tabs, focus, page, t, fc, exc>>

\* pages of the whole-program specification: one per discovery outcome
Fixtures ==
    { <<>>,
      <<K_EditorKw, K_PostBtn>>,
      <<K_Textarea, K_PostBtnHidden>>,
      <<K_Surface, K_EditorLatent>>,
      <<K_Editor, K_PostBtnAriaDis>>,
      <<K_EditorKw, K_EditorMain, K_PostBtnAriaDis>> }

\* the pages driver.get can load
Served(s) == IF s = "fixtures" THEN Fixtures ELSE Doms

\* ------------------------------------------------------ post_to_group
RunVars == <<args, cfg, file, site, status, links, listed, driver, drvCalled, loginCalls, quitCalls,
             idx, ok, delays>>

\* comp_xp / post_xp of post_to_group: is an override XPath in force
comp_xp == links[idx].composer_xpath /= <<>> \/ cfg.composer_xpath /= <<>>
post_xp == links[idx].post_button_xpath /= <<>> \/ cfg.post_button_xpath /= <<>>

\* the elements whose is_displayed()/is_enabled() raises during one search:
\* none, or one element that has gone stale
StaleSets(p) == {{}} \cup {{i} : i \in 1..Len(p.dom)}

Returned(p, r) == [el |-> r[1], usable |-> (r[1] /= None /\ Usable(p, r[1])), strat |-> r[2]]

\* post_to_group up to and including self.driver.switch_to.new_window('tab'),
\* which is outside the try block: its exception leaves post_to_group and run
post_to_group_open ==
    /\ pc = "ptg_open"
    /\ invoked' = Append(invoked, idx)
    /\ t' = TStart
    /\ fc' = FcStart
    /\ page' = EmptyPage
    /\ \E opened \in BOOLEAN :
        IF opened
        THEN tabs' = tabs + 1 /\ focus' = "tab" /\ pc' = "ptg_get" /\ UNCHANGED exc
        ELSE exc' = "new_window" /\ pc' = "run_finally" /\ UNCHANGED <<tabs, focus>>
    /\ UNCHANGED RunVars

\* driver.get(link): it loads some page and returns ("ok"), or raises a
\* TimeoutException ("timeout") or another exception ("error")
post_to_group_get ==
    /\ pc = "ptg_get"
    /\ \E d \in Served(site), nav \in {"ok", "timeout", "error"} :
        /\ page' = [dom |-> d, opened |-> FALSE]
        /\ t' = [t EXCEPT !.nav = nav]
    /\ pc' = "ptg_get_except"
    /\ UNCHANGED <<RunVars, invoked, tabs, focus, fc, exc>>

\* the handler `except Exception as e:` of driver.get and self._sleep(1.0, 2.2):
\* a TimeoutException executes window.stop() (an exception of that script is
\* swallowed); any other exception is re-raised inside the inner try block
\* and swallowed by its `except Exception: pass`. Either way _find_composer
\* is called next.
post_to_group_get_except ==
    /\ pc = "ptg_get_except"
    /\ t' = [t EXCEPT !.nav = "none", !.stopped = (t.nav = "timeout")]
    /\ pc' = "fc_override"
    /\ UNCHANGED <<RunVars, invoked, tabs, focus, page, fc, exc>>

\* ------------------------------------------------------ _find_composer
Logged(name, r) == [s |-> name, hit |-> (r /= None)]

\* `return e` / `return composer`: the call ends with element r
FcReturn(tt, p, r, strat) ==
    /\ t' = [tt EXCEPT !.composer = r, !.fcDone = TRUE, !.fcRet = Returned(p, <<r, strat>>)]
    /\ pc' = "ptg_found"

\* the override selector strategy (the first statement after the handler of
\* driver.get: what the handler did is no longer tracked)
fc_override ==
    /\ pc = "fc_override"
    /\ LET t0 == [t EXCEPT !.stopped = FALSE] IN
       IF comp_xp
       THEN \E stale \in StaleSets(page) :
              LET r == FirstUsable(page, Select(page, ComposerOverrideMatch), stale) IN
              /\ fc' = [fc EXCEPT !.log = Append(@, Logged("override", r))]
              /\ IF r /= None
                 THEN FcReturn([t0 EXCEPT !.exn = (stale /= {})], page, r, "override")
                 ELSE pc' = "fc_fast" /\ t' = [t0 EXCEPT !.exn = (stale /= {})]
       ELSE pc' = "fc_fast" /\ t' = t0 /\ UNCHANGED fc
    /\ UNCHANGED <<RunVars, invoked, tabs, focus, page, exc>>

\* the fast path: wait for the 'Tulis sesuatu' placeholder to be clickable,
\* click it (natively, else by script, else not at all), wait for the main
\* composer (aria-placeholder 'Buat postingan publik...'), click and return it
fc_fast ==
    /\ pc = "fc_fast"
    /\ \E clicked \in BOOLEAN :
        LET phs == Select(page, IsPlaceholder)
            ph == IF phs /= <<>> /\ Usable(page, phs[1]) THEN phs[1] ELSE None
            p2 == [page EXCEPT !.opened = @ \/ (ph /= None /\ clicked)]
            ms == Select(p2, IsMainComposer)
            r  == IF ph /= None /\ ms /= <<>> /\ Usable(p2, ms[1]) THEN ms[1] ELSE None
        IN /\ ph = None => clicked
           /\ page' = p2
           /\ fc' = [fc EXCEPT !.log = Append(@, Logged("fast", r))]
           /\ IF r /= None
              THEN FcReturn([t EXCEPT !.exn = @ \/ ~clicked], p2, r, "fast")
              ELSE pc' = "fc_scan" /\ t' = [t EXCEPT !.exn = @ \/ ~clicked]
    /\ UNCHANGED <<RunVars, invoked, tabs, focus, exc>>

\* direct_scan leaving out the static XPath list after a scored scan
fc_scan_SkipsStatic ==
    /\ pc = "fc_scan"
    /\ \E stale \in StaleSets(page), jsRaise \in BOOLEAN :
        LET r == ScoredScan(page, stale, jsRaise) IN
        /\ fc' = [fc EXCEPT !.log = Append(@, Logged("scan", r)), !.scans = @ + 1]
        /\ IF r /= None
           THEN FcReturn([t EXCEPT !.raised = PassedOver(ScoredCandidates(page), stale, r),
                                   !.exn = @ \/ stale /= {} \/ jsRaise],
                         page, r, "scan")
           ELSE pc' = "fc_surface" /\ t' = [t EXCEPT !.exn = @ \/ stale /= {} \/ jsRaise]
    /\ UNCHANGED <<RunVars, invoked, tabs, focus, page, exc>>

\* direct_scan, first half: the scored scan
fc_scan ==
    /\ pc = "fc_scan"
    /\ \E stale \in StaleSets(page), jsRaise \in BOOLEAN :
        LET r == ScoredScan(page, stale, jsRaise) IN
        /\ fc' = [fc EXCEPT !.log = Append(@, Logged("scan", r)), !.scans = @ + 1]
        /\ IF r /= None
           THEN FcReturn([t EXCEPT !.raised = PassedOver(ScoredCandidates(page), stale, r),
                                   !.exn = @ \/ stale /= {} \/ jsRaise],
                         page, r, "scan")
           ELSE pc' = "fc_static" /\ t' = [t EXCEPT !.exn = @ \/ stale /= {} \/ jsRaise]
    /\ UNCHANGED <<RunVars, invoked, tabs, focus, page, exc>>

\* direct_scan, second half: the static XPath list
fc_static ==
    /\ pc = "fc_static"
    /\ \E stale \in StaleSets(page) :
        LET r == StaticComposerList(page, stale) IN
        /\ fc' = [fc EXCEPT !.log = Append(@, Logged("static", r))]
        /\ IF r /= None
           THEN FcReturn([t EXCEPT !.exn = @ \/ stale /= {}], page, r, "static")
           ELSE pc' = "fc_surface" /\ t' = [t EXCEPT !.exn = @ \/ stale /= {}]
    /\ UNCHANGED <<RunVars, invoked, tabs, focus, page, exc>>

\* the loop rescanning after every attempt, whether the click succeeded or not
fc_surface_RescansAlways ==
    /\ pc = "fc_surface"
    /\ IF fc.attempt >= SurfaceAttempts
       THEN FcReturn(t, page, None, "none") /\ UNCHANGED <<fc, page>>
       ELSE \E scriptOk \in BOOLEAN :
              LET clicked == scriptOk /\ Select(page, SurfaceMatch) /= <<>> IN
              /\ fc' = [fc EXCEPT !.attempt = @ + 1,
                                  !.log = Append(@, [s |-> "surface", hit |-> FALSE])]
              /\ page' = [page EXCEPT !.opened = @ \/ clicked]
              /\ pc' = "fc_scan"
              /\ t' = [t EXCEPT !.exn = @ \/ ~scriptOk]
    /\ UNCHANGED <<RunVars, invoked, tabs, focus, exc>>

\* `for _ in range(3): if self._try_click_composer_surface(): ...` and the
\* final `return None`; scriptOk: the click script did not raise
fc_surface ==
    /\ pc = "fc_surface"
    /\ IF fc.attempt >= SurfaceAttempts
       THEN FcReturn(t, page, None, "none") /\ UNCHANGED <<fc, page>>
       ELSE \E scriptOk \in BOOLEAN :
              LET clicked == scriptOk /\ Select(page, SurfaceMatch) /= <<>> IN
              /\ fc' = [fc EXCEPT !.attempt = @ + 1,
                                  !.log = Append(@, [s |-> "surface", hit |-> FALSE])]
              /\ page' = [page EXCEPT !.opened = @ \/ clicked]
              /\ pc' = IF clicked THEN "fc_scan" ELSE "fc_surface"
              /\ t' = [t EXCEPT !.exn = @ \/ ~scriptOk]
    /\ UNCHANGED <<RunVars, invoked, tabs, focus, exc>>

\* ------------------------------------------- post_to_group, after discovery
\* the inspect test of post_to_group giving way to --manual-post
InspectBranch_UnlessManual(c) == c.inspect /\ ~c.manual_post

InspectBranch(c) == c.inspect          \* `if self.cfg.inspect:`
ManualBranch(c) == c.manual_post       \* `if self.cfg.manual_post:`

\* `return True`, or the handler `except Exception as e:` printing the
\* warning and returning False
PtgReturn(tt, value) ==
    /\ t' = [tt EXCEPT !.ret = value, !.warn = (value = "False")]
    /\ pc' = "ptg_finally"

\* from `if not composer:` to the end of the inspect branch
post_to_group_found ==
    /\ pc = "ptg_found"
    /\ IF t.composer = None
       THEN PtgReturn(t, "False")
       ELSE IF InspectBranch(cfg)
       THEN \E stale \in StaleSets(page), jsRaise \in BOOLEAN :
              LET r == _find_post_button(page, t.composer, post_xp, stale, jsRaise) IN
              PtgReturn([t EXCEPT !.pbCalls = @ + 1, !.pbRet = Returned(page, r),
                                  !.exn = @ \/ stale /= {} \/ jsRaise], "True")
       ELSE pc' = "ptg_type" /\ UNCHANGED t
    /\ UNCHANGED <<RunVars, invoked, tabs, focus, page, fc, exc>>

\* `if not self._set_composer_text(composer, self.cfg.message)` and the waits
\* after it: "keys" send_keys worked, "script" the insertText/value script
\* worked, "fail" both raised
post_to_group_type ==
    /\ pc = "ptg_type"
    /\ \E outcome \in {"keys", "script", "fail"} :
        LET tt == [t EXCEPT !.typeCalls = @ + 1,
                            !.typedOk = (outcome /= "fail"),
                            !.typedInto = IF outcome = "fail" THEN @ ELSE @ \cup {t.composer}]
        IN IF outcome = "fail"
           THEN PtgReturn(tt, "False")
           ELSE t' = tt /\ pc' = IF ManualBranch(cfg) THEN "ptg_manual" ELSE "ptg_explicit"
    /\ UNCHANGED <<RunVars, invoked, tabs, focus, page, fc, exc>>

\* manual mode: `try: input()  except Exception: pass`; "line": the operator
\* pressed Enter, "eof": input() raised (EOFError on a closed stdin)
post_to_group_manual ==
    /\ pc = "ptg_manual"
    /\ \E outcome \in {"line", "eof"} :
        PtgReturn([t EXCEPT !.inputCalls = @ + 1, !.confirmed = (outcome = "line")], "True")
    /\ UNCHANGED <<RunVars, invoked, tabs, focus, page, fc, exc>>

\* //div[@aria-label="Posting" and @role="button" and @tabindex="0"]
IsPostingButton(e) == e.tag = "div" /\ e.aria = {"posting"} /\ e.role = "button" /\ e.tab0

\* the explicit 'Posting' button flow; findOk: find_element did not raise,
\* keysOk: the nudging send_keys worked, dis1: aria-disabled when re-read,
\* clickOk: the script click did not raise
post_to_group_explicit ==
    /\ pc = "ptg_explicit"
    /\ \E findOk \in BOOLEAN, keysOk \in BOOLEAN, dis1 \in BOOLEAN, clickOk \in BOOLEAN :
        LET pbs == Select(page, IsPostingButton)
            post_btn == IF findOk /\ pbs /= <<>> THEN pbs[1] ELSE None
            dis0 == post_btn /= None /\ page.dom[post_btn].ariaDis
            ms == Select(page, IsMainComposer)
            comp_el == IF ms /= <<>> THEN ms[1] ELSE t.composer
            dis == dis0 /\ dis1
            click == post_btn /= None /\ ~dis /\ clickOk
        IN /\ post_btn = None => keysOk /\ dis1 /\ clickOk
           /\ ~dis0 => keysOk /\ dis1
           /\ dis => clickOk
           /\ t' = [t EXCEPT !.typedInto = IF dis0 /\ keysOk THEN @ \cup {comp_el} ELSE @,
                             !.explicitClick = click,
                             !.clicks = IF click THEN @ + 1 ELSE @]
    /\ pc' = "ptg_click1"
    /\ UNCHANGED <<RunVars, invoked, tabs, focus, page, fc, exc>>

\* _click_post whose second call leaves out the script strategy
ClickPost_SecondWithoutScript(n) ==
    \E stale \in StaleSets(page), jsRaise \in BOOLEAN, clickOk \in BOOLEAN :
        LET r == _find_post_button(page, t.composer, post_xp, stale, jsRaise \/ n = 2)
            clicked == r[1] /= None /\ clickOk
            tt == [t EXCEPT !.pbCalls = @ + 1, !.pbRet = Returned(page, r),
                            !.exn = @ \/ stale /= {} \/ jsRaise,
                            !.clickPosts = @ + 1,
                            !.clicks = IF clicked THEN @ + 1 ELSE @]
        IN /\ r[1] = None => clickOk
           /\ IF clicked THEN PtgReturn(tt, "True")
              ELSE IF n = 1 THEN t' = tt /\ pc' = "ptg_click2"
              ELSE PtgReturn(tt, "False")

\* one call of _click_post(composer, post_xp) and what post_to_group does with
\* its result; n = 1: the first call, n = 2: the call after the scroll jiggle
ClickPost(n) ==
    \E stale \in StaleSets(page), jsRaise \in BOOLEAN, clickOk \in BOOLEAN :
        LET r == _find_post_button(page, t.composer, post_xp, stale, jsRaise)
            clicked == r[1] /= None /\ clickOk
            tt == [t EXCEPT !.pbCalls = @ + 1, !.pbRet = Returned(page, r),
                            !.exn = @ \/ stale /= {} \/ jsRaise,
                            !.clickPosts = @ + 1,
                            !.clicks = IF clicked THEN @ + 1 ELSE @]
        IN /\ r[1] = None => clickOk
           /\ IF clicked THEN PtgReturn(tt, "True")
              ELSE IF n = 1 THEN t' = tt /\ pc' = "ptg_click2"
              ELSE PtgReturn(tt, "False")

post_to_group_click1 ==
    /\ pc = "ptg_click1"
    /\ ClickPost(1)
    /\ UNCHANGED <<RunVars, invoked, tabs, focus, page, fc, exc>>

post_to_group_click2 ==
    /\ pc = "ptg_click2"
    /\ ClickPost(2)
    /\ UNCHANGED <<RunVars, invoked, tabs, focus, page, fc, exc>>

\* the finally block: close(), window_handles[0], switch_to.window(root), all
\* in one try whose exception is swallowed.
\*   "ok"            all three calls succeed
\*   "close_raises"  close() raises: the tab stays open, focus stays on it
\*   "switch_raises" the tab is closed, a later call raises: no window focused
\* post_to_group then returns: only its return value outlives the call
post_to_group_finally ==
    /\ pc = "ptg_finally"
    /\ \E outcome \in {"ok", "close_raises", "switch_raises"} :
        /\ tabs' = IF outcome = "close_raises" THEN tabs ELSE tabs - 1
        /\ focus' = CASE outcome = "ok" -> "root"
                      [] outcome = "close_raises" -> focus
                      [] OTHER -> "gone"
        /\ page' = IF outcome = "close_raises" THEN page ELSE EmptyPage
    /\ t' = [TStart EXCEPT !.closed = TRUE, !.ret = t.ret]
    /\ fc' = FcStart
    /\ pc' = "run_count"
    /\ UNCHANGED <<RunVars, invoked, exc>>

\* ------------------------------------------------------- specifications
Init == \E a \in Args, f \in FileStates : InitWith(a, f, "fixtures")

Next ==
    \/ parse_args
    \/ main_read_links
    \/ run_dry
    \/ _init_driver
    \/ login
    \/ post_to_group_open
    \/ post_to_group_get
    \/ post_to_group_get_except
    \/ fc_override
    \/ fc_fast
    \/ fc_scan
    \/ fc_static
    \/ fc_surface
    \/ post_to_group_found
    \/ post_to_group_type
    \/ post_to_group_manual
    \/ post_to_group_explicit
    \/ post_to_group_click1
    \/ post_to_group_click2
    \/ post_to_group_finally
    \/ run_count
    \/ run_finally

Spec == Init /\ [][Next]_vars

\* The discovery specification: one target per run, served any page of up
\* to MaxDom elements.
Mode(dry, ins, man) ==
    [dry_run |-> dry, inspect |-> ins, manual_post |-> man,
     message |-> TRUE, creds |-> TRUE, limit |-> 0]

PlainLine == <<"u">>
OverrideLine == <<"u", "|", "a", "|", "a">>

\* <<arguments, line of the links file, pages served>> of the runs: discovery
\* does not depend on the mode, so the automatic run (with overrides) and the
\* inspect run (without) are served every page
DiscoveryRuns ==
    { <<Mode(FALSE, FALSE, FALSE), OverrideLine, "any">>,
      <<Mode(FALSE, TRUE, FALSE), PlainLine, "any">>,
      <<Mode(FALSE, FALSE, TRUE), PlainLine, "fixtures">>,
      <<Mode(TRUE, FALSE, FALSE), PlainLine, "fixtures">> }

InitDiscovery ==
    \E r \in DiscoveryRuns : InitWith(r[1], [exists |-> TRUE, lines |-> <<r[2]>>], r[3])

SpecDiscovery == InitDiscovery /\ [][Next]_vars

\* The links-file specification: dry runs (parse_args, read_links, listing)
\* over files of varied lines and values of --limit.
LinkFiles == SeqsUpTo(LinkLines, MaxLines) \cup {ExampleFile}

LinkLimits == {0, 1, 2, 10}

InitLinks ==
    \E f \in LinkFiles, l \in LinkLimits :
        InitWith([Mode(TRUE, FALSE, FALSE) EXCEPT !.limit = l],
                 [exists |-> TRUE, lines |-> f], "fixtures")

NextLinks ==
    \/ parse_args
    \/ main_read_links
    \/ run_dry

SpecLinks == InitLinks /\ [][NextLinks]_vars

\* ================================================================ claims
LoginSucceeded == loginCalls = 1 /\ exc \notin {"url_check", "driver"}

\* C1 (as claimed): in a non-dry-run run whose loop was entered, no failure
\* on a target aborts the run: when the process has exited, post_to_group
\* was invoked for every target in input order and one delay followed each.
C1_RunNeverAborts ==
    (pc = "exit" /\ LoginSucceeded)
        => /\ invoked = [i \in 1..Len(links) |-> i]
           /\ delays = Len(links)

\* ------------------------------------------------------------------ C2
StrategyNames == [i \in 1..Len(fc.log) |-> fc.log[i].s]

NoHitBeforeLast == \A i \in 1..(Len(fc.log) - 1) : ~fc.log[i].hit

ClaimedStep(a, b) ==
    <<a, b>> \in {<<"override", "scan">>, <<"scan", "static">>, <<"static", "surface">>,
                 <<"surface", "scan">>, <<"surface", "surface">>}

ActualStep(a, b) ==
    <<a, b>> \in {<<"override", "fast">>, <<"fast", "scan">>, <<"scan", "static">>,
                 <<"static", "surface">>, <<"surface", "scan">>, <<"surface", "surface">>}

C3_ReturnsUsableOrNone ==
    /\ t.fcDone /\ t.fcRet.el /= None => t.fcRet.usable
    /\ t.fcDone /\ t.fcRet.el = None => fc.attempt = SurfaceAttempts
    /\ t.pbRet.el /= None => t.pbRet.usable
    /\ t.pbCalls > 0 /\ t.pbRet.el = None => t.pbRet.strat = "none"

\* C4 (as claimed): at most one target tab is open, and when the tab of the
\* next target is about to be opened the previous one is closed and the
\* primary tab is focused.
C4_AtMostOneTab ==
    /\ tabs <= 1
    /\ pc = "ptg_open" => tabs = 0 /\ focus = "root"

\* C5 (as claimed): a run that created a session logs in exactly once, before
\* any target, and quits the session exactly once, after all processing.
C5_SessionLifecycle ==
    /\ invoked /= <<>> => loginCalls = 1
    /\ loginCalls <= 1 /\ quitCalls <= 1
    /\ driver = "quit" => pc = "exit"
    /\ pc = "exit" /\ driver /= "none" => loginCalls = 1 /\ quitCalls = 1 /\ driver = "quit"

\* C6: when the post-login URL check fails, no target is processed, no tab
\* is opened, the session is quit, and the error leaves run (the process
\* ends with the status of an uncaught exception).
C6_LoginFailureIsFatal ==
    exc = "url_check"
        => /\ pc \in {"run_finally", "exit"}
           /\ invoked = <<>> /\ idx = 0 /\ tabs = 0 /\ delays = 0
           /\ pc = "exit" => quitCalls = 1 /\ driver = "quit" /\ status = ExitUncaught

C6_Witness == exc = "url_check" /\ pc = "exit" /\ Len(links) = 2

\* ------------------------------------------------------------------ C7
MissingMessage(a) == ~a.message /\ ~(a.dry_run \/ a.inspect)
MissingCredentials(a) == ~a.creds /\ ~(a.dry_run \/ a.inspect)
ConfigurationError == MissingMessage(args) \/ MissingCredentials(args) \/ ~file.exists

\* C7: with a fatal configuration error (no message or no credentials
\* outside dry-run/inspect, or a missing links file) no driver is ever
\* created or called, the run never starts, and the process exits with a
\* non-zero status other than the no-valid-targets status.
C7_ConfigErrorsExitEarly ==
    ConfigurationError
        => /\ driver = "none" /\ ~drvCalled
           /\ pc \in {"parse_args", "read_links", "exit"}
           /\ pc = "exit" => status /= ExitOk /\ status /= ExitNoTargets

C7_Witness == pc = "exit" /\ MissingCredentials(args) /\ ~MissingMessage(args) /\ file.exists

\* C8: in dry-run mode no driver is created or called, and when run returns
\* the targets have been listed once each, in order, numbered from 1.
C8_DryRunNoDriver ==
    args.dry_run
        => /\ driver = "none" /\ ~drvCalled /\ loginCalls = 0 /\ quitCalls = 0
           /\ tabs = 0 /\ invoked = <<>>
           /\ pc = "exit" /\ status = ExitOk
                => /\ Len(listed) = Len(links)
                   /\ \A i \in 1..Len(links) : listed[i] = <<i, links[i].url>>

C8_Witness == args.dry_run /\ args.inspect /\ pc = "exit" /\ Len(listed) = 2

\* C9: in inspect mode _set_composer_text is never called, no text is
\* entered, and no submit click (explicit or through _click_post) happens.
C9_InspectOnlyDiscovers ==
    cfg.inspect
        => /\ t.typeCalls = 0 /\ t.typedInto = {}
           /\ t.clickPosts = 0 /\ t.clicks = 0 /\ ~t.explicitClick
           /\ pc \notin {"ptg_type", "ptg_manual", "ptg_explicit", "ptg_click1", "ptg_click2"}

\* an inspect run that found the composer and the submit control
C9_Witness ==
    /\ cfg.inspect /\ cfg.manual_post
    /\ pc = "ptg_finally" /\ t.ret = "True"
    /\ t.composer /= None /\ t.pbRet.el /= None

\* C10 (as claimed): in manual-post mode, once text entry has succeeded the
\* program does no submit discovery and no submit click, and post_to_group
\* returns True only after the operator's confirmation was read.
C10_ManualWaitsForOperator ==
    (cfg.manual_post /\ ~cfg.inspect /\ t.typedOk)
        => /\ t.pbCalls = 0 /\ t.clickPosts = 0 /\ t.clicks = 0
           /\ t.ret = "True" => t.confirmed

\* ------------------------------------------------------------- C11, C12
\* read_links has returned its list to main
LinksRead == pc = "run" \/ (pc = "exit" /\ status \in {ExitOk, ExitNoTargets})

Min(a, b) == IF a <= b THEN a ELSE b

FieldAt(fields, i) == IF Len(fields) >= i THEN Strip(fields[i]) ELSE <<>>

TargetOf(fields) ==
    [url |-> FieldAt(fields, 1), composer_xpath |-> FieldAt(fields, 2),
     post_button_xpath |-> FieldAt(fields, 3)]

\* the fields of a line when every tab and every pipe separates two fields
FieldsAnySeparator(raw) ==
    LET line == Strip(raw) IN
    Split([i \in 1..Len(line) |-> IF line[i] = "T" THEN "|" ELSE line[i]], "|")

\* the fields of a line as read_links separates them: at the tabs when the
\* line has a tab, at the pipes otherwise
FieldsOneSeparator(raw) ==
    LET line == Strip(raw) IN
    IF HasChar(line, "T") THEN Split(line, "T") ELSE Split(line, "|")

NotBlankNotComment(raw) == Strip(raw) /= <<>> /\ Head(Strip(raw)) /= "#"

\* lines (by index, in file order) the claim says yield a target
ClaimedEligible ==
    SelectSeq([i \in 1..Len(file.lines) |-> i],
              LAMBDA i : NotBlankNotComment(file.lines[i]) /\ HasChar(file.lines[i], "u"))

\* lines that yield a target unless the limit is reached first
Eligible ==
    SelectSeq([i \in 1..Len(file.lines) |-> i],
              LAMBDA i : /\ NotBlankNotComment(file.lines[i])
                         /\ HasChar(FieldAt(FieldsOneSeparator(file.lines[i]), 1), "u"))

\* C11 (as claimed): every line that is non-blank, is no comment and
\* contains facebook.com yields exactly one target, in file order, with url,
\* composer override and submit override taken from fields 1, 2, 3 of the
\* line split at its tabs and pipes.
C11_EveryDomainLineIsATarget ==
    LinksRead
        => /\ Len(links) = Len(ClaimedEligible)
           /\ \A k \in 1..Len(links) :
                 links[k] = TargetOf(FieldsAnySeparator(file.lines[ClaimedEligible[k]]))

\* C11 (amended): the lines that are non-blank, are no comment and have
\* facebook.com in field 1 yield one target each, in file order, up to the
\* limit; url, composer override and submit override are fields 1, 2, 3
\* (an override is absent when its field is missing or empty) of the line
\* split at its tabs if it has one, at its pipes otherwise; the three-line
\* example read with limit 10 yields exactly two targets, the second with a
\* composer override and no submit override.
C11_FirstLimitField1Lines ==
    /\ LinksRead
        => /\ Len(links) = Min(Len(Eligible), cfg.limit)
           /\ \A k \in 1..Len(links) :
                 links[k] = TargetOf(FieldsOneSeparator(file.lines[Eligible[k]]))
    /\ (LinksRead /\ file.lines = ExampleFile /\ args.limit = 10)
        => /\ Len(links) = 2
           /\ links[2].composer_xpath = <<"a">>
           /\ links[2].post_button_xpath = <<>>

\* the example file has been read with limit 10
C11_Witness ==
    /\ pc = "run" /\ file.lines = ExampleFile /\ args.limit = 10
    /\ Len(links) = 2

\* C12: the list read_links returned is no longer than the limit it was
\* called with (Config.limit), and every target in it comes from a line that
\* has the domain: its url contains facebook.com, and there are at least as
\* many lines with the domain as targets.
C12_NoForeignLineWithinLimit ==
    LinksRead
        => /\ Len(links) <= cfg.limit
           /\ \A k \in 1..Len(links) : HasChar(links[k].url, "u")
           /\ Len(links) <= Cardinality({i \in 1..Len(file.lines) : HasChar(file.lines[i], "u")})

\* two lines with the domain read with limit 1: the second is cut off
C12_Witness ==
    /\ pc = "run" /\ cfg.limit = 1 /\ Len(links) = 1
    /\ Len(file.lines) = 2
    /\ \A i \in 1..2 : HasChar(FieldAt(FieldsOneSeparator(file.lines[i]), 1), "u")

\* ------------------------------------------------------------- C13, C14
\* post_to_group is about to return after ...
ComposerNotFound == pc = "ptg_finally" /\ t.fcDone /\ t.composer = None
TextEntryFailed == pc = "ptg_finally" /\ t.typeCalls > 0 /\ ~t.typedOk
SubmitNotFound == pc = "ptg_finally" /\ t.clickPosts = 2 /\ t.pbRet.el = None

\* the target is reported as failed with the warning
ReportedFailed == t.ret = "False" /\ t.warn

\* a failed target is not counted, the delay is taken and the loop goes on
\* to the next target (or ends after the last)
FailedTargetStep ==
    (pc = "run_count" /\ t.ret = "False")
        => /\ ok' = ok
           /\ delays' = delays + 1
           /\ invoked' = invoked
           /\ IF idx < Len(links)
              THEN pc' = "ptg_open" /\ idx' = idx + 1
              ELSE pc' = "run_finally" /\ exc' = "none"

\* the handler of a navigation timeout ends the target as failed
TimeoutFailsTarget ==
    (pc = "ptg_get_except" /\ t.nav = "timeout")
        => pc' = "ptg_finally" /\ t'.ret = "False" /\ t'.warn

\* the handler of a navigation timeout stops the page load and goes on to
\* composer discovery: nothing is logged, nothing is returned
TimeoutGoesOn ==
    (pc = "ptg_get_except" /\ t.nav = "timeout")
        => pc' = "fc_override" /\ t'.stopped /\ t'.ret = "none" /\ ~t'.warn

RecoveredLocally ==
    (ComposerNotFound \/ TextEntryFailed \/ SubmitNotFound) => ReportedFailed

\* C13 (as claimed): composer not found, text entry failed, submit control
\* not found and navigation timeout each end the target with the warning
\* and the result False; the target is not counted and the run goes on.
C13_FourKindsFailTheTarget ==
    /\ []RecoveredLocally
    /\ [][FailedTargetStep]_vars
    /\ [][TimeoutFailsTarget]_vars

\* C13 (amended): composer not found, text entry failed and submit control
\* not found each end the target with the warning and the result False; the
\* target is not counted, the delay is taken and the run goes on with the
\* next target. A navigation timeout is no such error: its handler stops
\* the page load, logs nothing and goes on to composer discovery.
C13_ThreeKindsFailTheTarget ==
    /\ []RecoveredLocally
    /\ [][FailedTargetStep]_vars
    /\ [][TimeoutGoesOn]_vars

\* a first target without a composer was reported failed and the second
\* target is being processed
C13_Witness ==
    /\ idx = 2 /\ ok = 0 /\ delays = 1 /\ invoked = <<1, 2>>
    /\ pc = "fc_override" /\ t.stopped

\* C14 (as claimed): after a navigation timeout the handler executes
\* window.stop() and composer discovery follows; after any other navigation
\* exception window.stop() is not executed and the target fails without
\* composer discovery.
C14_OnlyTimeoutIsTolerated ==
    [][ pc = "ptg_get_except"
          => /\ t.nav = "timeout" => (t'.stopped /\ pc' = "fc_override")
             /\ t.nav = "error"
                  => (~t'.stopped /\ pc' = "ptg_finally" /\ t'.ret = "False") ]_vars

\* ------------------------------------------------------------------ C15
\* the list the scored scan returns for the page in the tab
Ranking == ScoredCandidates(page)

Matching == {i \in 1..Len(page.dom) : ScanSelector(page.dom[i]) /\ score(page.dom[i]) > ScoreThreshold}

\* C15: the scored scan lists exactly the matching elements, each once, in
\* descending score order with equal scores in document order (so the list
\* is empty when nothing matches); an element returned by the scan is the
\* first candidate of that list that is visible and enabled, candidates
\* whose check raised being passed over.
C15_RankedDescendingStable ==
    /\ {Ranking[i] : i \in 1..Len(Ranking)} = Matching
    /\ Len(Ranking) = Cardinality(Matching)
    /\ \A i, j \in 1..Len(Ranking) :
          i < j => \/ score(page.dom[Ranking[i]]) > score(page.dom[Ranking[j]])
                   \/ /\ score(page.dom[Ranking[i]]) = score(page.dom[Ranking[j]])
                      /\ Ranking[i] < Ranking[j]
    /\ (t.fcDone /\ t.fcRet.strat = "scan")
          => \E k \in 1..Len(Ranking) :
                /\ Ranking[k] = t.composer
                /\ Usable(page, t.composer)
                /\ \A i \in 1..(k - 1) : ~Usable(page, Ranking[i]) \/ Ranking[i] \in t.raised

\* the scan returned the second element of the page, ranked before a usable
\* first element of lower score
C15_Witness ==
    /\ t.fcDone /\ t.fcRet.strat = "scan" /\ t.composer = 2
    /\ Ranking = <<2, 1>>
    /\ Usable(page, 1) /\ t.raised = {}

\* ------------------------------------------------------------------ C16
\* the element with keyword k added to its aria-label, all else unchanged
WithKeyword(e, k) == [e EXCEPT !.aria = @ \cup {k}]

\* C16: for every element of the page and every keyword of the dictionary,
\* the score of the element with the keyword added to its aria-label is at
\* least its score without.
C16_ScoreMonotonic ==
    \A i \in 1..Len(page.dom) : \A k \in COMPOSER_KEYWORDS :
        score(WithKeyword(page.dom[i], k)) >= score(page.dom[i])

\* the scan is about to score a page with a labelled element: a new keyword
\* raises its score, the keyword it already has leaves it unchanged
C16_Witness ==
    /\ pc = "fc_scan"
    /\ \E i \in 1..Len(page.dom) :
          /\ page.dom[i].aria /= {}
          /\ \E k \in COMPOSER_KEYWORDS :
                score(WithKeyword(page.dom[i], k)) > score(page.dom[i])
          /\ \E k \in COMPOSER_KEYWORDS :
                score(WithKeyword(page.dom[i], k)) = score(page.dom[i])

\* ------------------------------------------------------------------ C17
\* the clicks of the discovery call have not changed what the page shows
StaticPage == \A i \in 1..Len(page.dom) : is_displayed(page, i) <=> page.dom[i].vis = "shown"

\* _find_composer has returned from a call on a static page in which no
\* driver call raised: a second call with the same override on the page as
\* it is returns the same element (or not-found as well)
SecondFindComposerAgrees ==
    (t.fcDone /\ ~t.exn /\ StaticPage)
        => /\ _find_composer(page, comp_xp)[1] = t.composer
           /\ _find_composer(page, comp_xp)[2] = page

\* the second of the two successive _find_post_button calls of
\* post_to_group (through _click_post) returns what the first returned
SecondFindPostButtonAgrees ==
    (pc = "ptg_click2" /\ ~t'.exn /\ StaticPage /\ page' = page)
        => /\ t'.pbCalls = t.pbCalls + 1
           /\ t'.pbRet.el = t.pbRet.el

AutomaticMode == ~cfg.manual_post /\ ~cfg.inspect /\ ~cfg.dry_run

\* C18 (as claimed): in automatic mode at most one submit click is made for
\* a target, and _click_post is called only when the explicit 'Posting'
\* button click was not executed.
C18_SubmitClickedOnce ==
    AutomaticMode
        => /\ t.clicks <= 1
           /\ t.explicitClick => t.clickPosts = 0

\* ------------------------------------------------------------------ C19
\* C19 (as claimed): for one target, text is entered only into the element
\* composer discovery returned, text entry comes after discovery, a submit
\* click or submit discovery in a posting mode comes only after text entry
\* reported success, and once the tab has been closed nothing more is done
\* on the target.
C19_StepsInOrder ==
    /\ t.typedInto \subseteq {t.composer} \ {None}
    /\ t.typeCalls > 0 => t.fcDone /\ t.composer /= None
    /\ (t.clicks > 0 \/ t.clickPosts > 0 \/ t.inputCalls > 0) => t.typedOk
    /\ t.fcDone => tabs > 0
    /\ t.closed => /\ pc \in {"run_count", "ptg_open", "run_finally", "exit"}
                   /\ t = [TStart EXCEPT !.closed = TRUE, !.ret = t.ret]

\* ------------------------------------------------------------------ C20
FcPcs == {"fc_override", "fc_fast", "fc_scan", "fc_static", "fc_surface"}

\* the number of strategy runs one _find_composer call can log: override,
\* fast path, scan and static list per pass, surface clicks
MaxFcLog == 2 + 2 * (SurfaceAttempts + 1) + SurfaceAttempts

FcBounds ==
    /\ fc.attempt <= SurfaceAttempts
    /\ fc.scans <= fc.attempt + 1
    /\ Len(fc.log) <= MaxFcLog
    /\ (t.fcDone /\ t.composer = None) => fc.attempt = SurfaceAttempts

\* a step of _find_composer returns, or goes forward to a later strategy,
\* or logs the run of a strategy; a rescan follows a surface attempt only
\* when the click reported success; after the third attempt the call returns
FcStep ==
    pc \in FcPcs
        => /\ \/ pc' = "ptg_found"
              \/ Len(fc'.log) > Len(fc.log)
              \/ pc = "fc_override" /\ pc' = "fc_fast"
           /\ (pc = "fc_surface" /\ pc' = "fc_scan")
                => /\ Select(page, SurfaceMatch) /= <<>>
                   /\ page'.opened /\ t'.exn = t.exn
           /\ (pc = "fc_surface" /\ fc.attempt = SurfaceAttempts)
                => pc' = "ptg_found" /\ t'.composer = None /\ fc' = fc

\* C20: one call of _find_composer makes at most 3 surface clicks and at
\* most 4 scan passes, rescans only after a surface click that reported
\* success, returns not-found after the third unsuccessful attempt, and ends
\* after a bounded number of steps.
C20_DiscoveryTerminates ==
    /\ []FcBounds
    /\ [][FcStep]_vars

\* a call that clicked three times, scanned four times and returned not-found
C20_Witness ==
    /\ t.fcDone /\ t.composer = None
    /\ fc.attempt = SurfaceAttempts /\ fc.scans = SurfaceAttempts + 1

====
